---- MODULE Spec2Model ----
(***************************************************************************)
(* A model of the Redis-backed concurrent crawler (main.go, redis.go):     *)
(* the WaitGroup used as pending-work counter, the zero-watcher goroutine, *)
(* Start's seeding, the worker loop, process, CheckAndMark over SADD, and  *)
(* extractLinks' explicit-stack walk of the parsed node tree.              *)
(***************************************************************************)
EXTENDS Integers, Sequences, FiniteSets, TLC

\* ------------------------------------------------------------------ bounds
MaxWorkers == 2      \* largest --workers value explored
MaxDepth == 3        \* largest --depth value explored
MaxFaults == 1       \* store / network failures injected per run
MaxCallers == 3      \* goroutines calling RedisClient.CheckAndMark at once
MaxAnchors == 15     \* largest number of nodes under <body> in an extractor input

\* ------------------------------------------------- program constants
MaxLinks == 10       \* "if len(links) >= 10 { break }"

\* ------------------------------------------------------------- node trees
\* html.Node as extractLinks reads it: Type, Data, Attr, FirstChild/NextSibling.
Attr(k, v) == [key |-> k, val |-> v]

Node(t, d, as, ks) == [type |-> t, data |-> d, attr |-> as, kids |-> ks]

Text(s) == Node("text", s, <<>>, <<>>)

Elem(tag, as, ks) == Node("element", tag, as, ks)

Anchor(href) == Elem("a", <<Attr("href", href)>>, <<Text("link")>>)

\* html.Parse always yields document > html > (head, body).
Document(bodyKids) ==
    Node("document", "", <<>>,
         <<Elem("html", <<>>, <<Elem("head", <<>>, <<>>), Elem("body", <<>>, bodyKids)>>)>>)

\* ------------------------------------------------------------ resolveURL
\* url.Parse fails on a malformed reference (modelled by a leading "%");
\* the empty reference resolves to the base itself; every other reference
\* used here is absolute and passes through ResolveReference unchanged.
BadHref == "%zz"

ParseFails(href) == href = BadHref

resolveURL(base, href) ==
    IF ParseFails(href) THEN ""
    ELSE IF href = "" THEN base
    ELSE href

\* ----------------------------------------------------------- extractLinks
\* Index of the first attribute whose key is "href", 0 when there is none
\* (the inner for ... break of the anchor branch).
FirstHrefIndex(as) ==
    LET idx == {i \in 1..Len(as) : as[i].key = "href"}
    IN  IF idx = {} THEN 0 ELSE CHOOSE i \in idx : \A j \in idx : i <= j

IsAnchor(n) == n.type = "element" /\ n.data = "a"

\* The links slice after visiting node n.
VisitNode(base, n, links) ==
    IF ~IsAnchor(n) THEN links
    ELSE LET i == FirstHrefIndex(n.attr)
         IN  IF i = 0 THEN links
             ELSE LET resolved == resolveURL(base, n.attr[i].val)
                  IN  IF resolved # "" THEN Append(links, resolved) ELSE links

\* A faulty variant: the cap tested one link too late.
LinkCapOffByOne(links) == Len(links) > MaxLinks

LinkCapReached(links) == Len(links) >= MaxLinks

\* A faulty variant: the oldest node of the stack is taken, not the newest.
ExtractStepOldest(base, st) ==
    LET n == Head(st.stack)
        links == VisitNode(base, n, st.links)
    IN  [stack |-> Tail(st.stack) \o n.kids,
         links |-> links,
         stopped |-> LinkCapReached(links)]

\* One iteration of "for len(stack) > 0": pop the last node, visit it, push
\* its children first to last, then test the cap.
ExtractStep(base, st) ==
    LET n == st.stack[Len(st.stack)]
        rest == SubSeq(st.stack, 1, Len(st.stack) - 1)
        links == VisitNode(base, n, st.links)
    IN  [stack |-> rest \o n.kids,
         links |-> links,
         stopped |-> LinkCapReached(links)]

ExtractStart(doc) == [stack |-> <<doc>>, links |-> <<>>, stopped |-> FALSE]

ExtractRunning(st) == Len(st.stack) > 0 /\ ~st.stopped

\* The loop run to its end (each iteration's state computed once).
RECURSIVE ExtractLoop(_, _)
ExtractLoop(base, st) ==
    IF ExtractRunning(st)
    THEN CHOOSE r \in {ExtractLoop(base, nxt) : nxt \in {ExtractStep(base, st)}} : TRUE
    ELSE st

\* The slice extractLinks returns for a page that was fetched and parsed.
extractLinks(base, doc) == ExtractLoop(base, ExtractStart(doc)).links

\* ------------------------------------------------- extractor input pages
\* n anchors side by side under <body>, each with its own target.
DocFlat(n) == Document([i \in 1..n |-> Anchor(ToString(i))])

\* n anchors, each one level deeper than the one before.
RECURSIVE NestedKids(_, _)
NestedKids(i, n) ==
    IF i > n THEN <<>>
    ELSE <<Elem("div", <<>>, NestedKids(i + 1, n)), Anchor(ToString(i))>>

DocNested(n) == Document(NestedKids(1, n))

\* n nodes under <body>: anchors with several attributes, without href, with
\* a malformed or empty href, an anchor inside a non-anchor element that has
\* an href of its own, and a text node whose data is "a".
MixedKid(i) ==
    IF i % 6 = 0 THEN Elem("a", <<Attr("class", "x"), Attr("href", ToString(i)),
                                  Attr("href", "second")>>, <<>>)
    ELSE IF i % 6 = 1 THEN Elem("a", <<Attr("name", "x")>>, <<Text("link")>>)
    ELSE IF i % 6 = 2 THEN Anchor(BadHref)
    ELSE IF i % 6 = 3 THEN Anchor("")
    ELSE IF i % 6 = 4 THEN Elem("div", <<Attr("href", "nolink")>>, <<Anchor(ToString(i))>>)
    ELSE Text("a")

DocMixed(n) == Document([i \in 1..n |-> MixedKid(i)])

\* Mixed nodes followed by a run of plain anchors.
DocTail(n) == Document([i \in 1..(2 * n) |-> IF i <= n THEN MixedKid(i) ELSE Anchor(ToString(i))])

Docs == {DocFlat(n) : n \in 0..MaxAnchors} \cup {DocNested(n) : n \in 0..MaxAnchors}
        \cup {DocMixed(n) : n \in 0..MaxAnchors} \cup {DocTail(n) : n \in 0..MaxAnchors}

\* ------------------------------------------------------------------ webs
\* What a GET of an address yields: the status and the parsed body.
Addrs == {"A", "B", "C", "D"}

SeedUrl == "A"

Page(hrefs) == [status |-> 200, doc |-> Document([i \in 1..Len(hrefs) |-> Anchor(hrefs[i])])]

NotFound == [status |-> 404, doc |-> Document(<<>>)]

\* A links to B and C, B links back to A, C has no links.
WebCycle == [u \in Addrs |->
    IF u = "A" THEN Page(<<"B", "C">>)
    ELSE IF u = "B" THEN Page(<<"A">>)
    ELSE IF u = "C" THEN Page(<<>>)
    ELSE NotFound]

\* A links to B twice, to itself and to a malformed reference; B links to D,
\* which answers 404.
WebDup == [u \in Addrs |->
    IF u = "A" THEN Page(<<"B", "", BadHref, "B">>)
    ELSE IF u = "B" THEN Page(<<"D">>)
    ELSE NotFound]

\* C is reachable from A directly and through B, and links to D.
WebDiamond == [u \in Addrs |->
    IF u = "A" THEN Page(<<"C", "B">>)
    ELSE IF u = "B" THEN Page(<<"C">>)
    ELSE IF u = "C" THEN Page(<<"D">>)
    ELSE Page(<<>>)]

\* A carries more anchors than the cap, all to B.
WebWide == [u \in Addrs |->
    IF u = "A" THEN Page([i \in 1..(MaxLinks + 2) |-> "B"])
    ELSE IF u = "B" THEN Page(<<>>)
    ELSE NotFound]

Webs == {"cycle", "dup", "diamond", "wide"}

\* The number of hops after which a crawl of web w meets nothing new: a depth
\* budget beyond it gives the same crawl with larger depth labels.
WebLevels(w) ==
    IF w = "wide" THEN 2
    ELSE IF w = "diamond" THEN 4
    ELSE 3

\* The response to a GET of u in web w.
Get(w, u) ==
    IF w = "cycle" THEN WebCycle[u]
    ELSE IF w = "dup" THEN WebDup[u]
    ELSE IF w = "diamond" THEN WebDiamond[u]
    ELSE WebWide[u]

\* ----------------------------------------------------------- the program
VARIABLES
    entry,        \* "main": the CLI; "direct": Start called with a depth main rejects
    url,          \* --url / seedURL
    maxDepth,     \* --depth / maxDepth
    workerCount,  \* --workers / workerCount
    web,          \* the pages the crawl meets
    jobs0,        \* the list "jobs" as the program found it
    visited0,     \* the set "visited_urls" as the program found it
    pcMain,       \* position of the main goroutine in main and Start
    spawned,      \* Start's loop variable i
    count,        \* the SCARD result main prints, -1 before
    pcWatch,      \* position of the coordinator goroutine
    done,         \* TRUE once close(done) ran
    wg,           \* c.wg's counter
    jobs,         \* the Redis list "jobs", head first
    visited,      \* the Redis set "visited_urls"
    pcW,          \* position of each worker goroutine
    item,         \* each worker's WorkItem
    links,        \* each worker's links still to range over
    found,        \* each worker's extractLinks result for its item
    issued,       \* wg.Add / LPush calls each worker issued for its item
    failed,       \* per kind of call, how many returned an error
    news,         \* per address, how often CheckAndMark returned false
    fetches,      \* per address, how often extractLinks was called
    panicked,     \* TRUE once wg went negative
    xbase,        \* extractLinks run on its own: baseTarget
    xdoc,         \* ... the parsed document
    xst,          \* ... its stack and links
    xpc,          \* ... "off", "loop" or "returned"
    xresult,      \* ... the slice returned
    rkeys,        \* RedisClient.CheckAndMark on its own: the keys stored
    rurl,         \* ... each caller's argument u
    rpc,          \* ... each caller's position in the function
    rexist,       \* ... each caller's local exist
    rret          \* ... what each call returned, "none" before

vars == <<entry, url, maxDepth, workerCount, web, jobs0, visited0, pcMain,
          spawned, count, pcWatch, done, wg, jobs, visited, pcW, item, links,
          found, issued, failed, news, fetches, panicked, xbase, xdoc, xst,
          xpc, xresult, rkeys, rurl, rpc, rexist, rret>>

params == <<entry, url, maxDepth, workerCount, web, jobs0, visited0>>

mainVars == <<pcMain, spawned, count>>

watchVars == <<pcWatch, done>>

workerVars == <<pcW, item, links, found, issued>>

histVars == <<news, fetches>>

xVars == <<xbase, xdoc, xst, xpc, xresult>>

rVars == <<rkeys, rurl, rpc, rexist, rret>>

crawlVars == <<params, mainVars, watchVars, wg, jobs, visited, workerVars,
               failed, histVars, panicked>>

Workers == 1..MaxWorkers

\* WorkItem's zero value.
ZeroItem == [URL |-> "", Depth |-> 0]

\* json.Marshal(map{"url": u, "depth": d}).
Marshal(u, d) == [syntax |-> "object", url |-> u, depth |-> d]

\* json.Unmarshal into WorkItem: an error on anything but an object, the
\* keys matched to the fields URL and Depth.
Unmarshal(raw) ==
    IF raw.syntax # "object" THEN [err |-> TRUE, item |-> ZeroItem]
    ELSE [err |-> FALSE, item |-> [URL |-> raw.url, Depth |-> raw.depth]]

\* LPUSH puts at the head, BRPOP takes from the tail.
LPush(q, data) == <<data>> \o q

BRPopValue(q) == q[Len(q)]

BRPopRest(q) == SubSeq(q, 1, Len(q) - 1)

\* SADD: the number of members added, and the set afterwards.
SAddAdded(set, u) == IF u \in set THEN 0 ELSE 1

\* A faulty variant: the member is looked up but not added.
SAddSetNoInsert(set, u) == set

SAddSet(set, u) == set \cup {u}

\* The process runs: main has neither rejected its flags nor returned, and no
\* goroutine panicked.
Alive == pcMain \notin {"rejected", "exited"} /\ ~panicked

\* The calls whose error the program handles: LPUSH, BRPOP, SADD, the GET.
FaultKinds == {"push", "pop", "sadd", "fetch"}

NumFailed == failed["push"] + failed["pop"] + failed["sadd"] + failed["fetch"]

CanFail == NumFailed < MaxFaults

Fail(kind) == [failed EXCEPT ![kind] = @ + 1]

\* LPush calls that failed.
lost == failed["push"]

\* extractLinks is not running on its own.
ExtractOff ==
    /\ xbase = SeedUrl
    /\ xdoc = Document(<<>>)
    /\ xst = ExtractStart(xdoc)
    /\ xpc = "off"
    /\ xresult = <<>>

\* The goroutines calling RedisClient.CheckAndMark on its own.
Callers == 1..MaxCallers

\* Nobody calls RedisClient.CheckAndMark: the crawler never does.
WrapperOff ==
    /\ rkeys = {}
    /\ rurl = [c \in Callers |-> ""]
    /\ rpc = [c \in Callers |-> "off"]
    /\ rexist = [c \in Callers |-> 0]
    /\ rret = [c \in Callers |-> "none"]

Init ==
    /\ entry \in {"main", "direct"}
    /\ url \in {"", SeedUrl}
    /\ maxDepth \in 0..MaxDepth
    /\ workerCount \in 0..MaxWorkers
    /\ web \in Webs
    /\ maxDepth <= WebLevels(web)
    /\ entry = "direct" => (url = SeedUrl /\ maxDepth = 0 /\ workerCount > 0)
    /\ pcMain = IF entry = "main" THEN "main" ELSE "go_watcher"
    /\ spawned = 0
    /\ count = -1
    /\ pcWatch = "none"
    /\ done = FALSE
    /\ wg = 0
    /\ jobs0 = <<>>
    /\ visited0 = {}
    /\ jobs = jobs0
    /\ visited = visited0
    /\ pcW = [w \in Workers |-> "none"]
    /\ item = [w \in Workers |-> ZeroItem]
    /\ links = [w \in Workers |-> <<>>]
    /\ found = [w \in Workers |-> <<>>]
    /\ issued = [w \in Workers |-> <<>>]
    /\ failed = [k \in FaultKinds |-> 0]
    /\ news = [u \in Addrs |-> 0]
    /\ fetches = [u \in Addrs |-> 0]
    /\ panicked = FALSE
    /\ ExtractOff
    /\ WrapperOff

\* ------------------------------------------------------------------- main
\* A faulty variant: --depth is not looked at.
FlagsValidAnyDepth == url # "" /\ workerCount > 0

\* main's flag validation, then crawler.Start.
FlagsValid == url # "" /\ maxDepth > 0 /\ workerCount > 0

MainValidate ==
    /\ pcMain = "main"
    /\ pcMain' = IF FlagsValid THEN "go_watcher" ELSE "rejected"
    /\ UNCHANGED <<params, spawned, count, watchVars, wg, jobs, visited,
                   workerVars, failed, histVars, panicked, xVars, rVars>>

\* ------------------------------------------------------------------ Start
\* go func() { c.wg.Wait(); close(done) }()
StartGoWatcher ==
    /\ Alive
    /\ pcMain = "go_watcher"
    /\ pcMain' = "add_seed"
    /\ pcWatch' = "wait"
    /\ UNCHANGED <<params, spawned, count, done, wg, jobs, visited,
                   workerVars, failed, histVars, panicked, xVars, rVars>>

\* A faulty variant: the seed is pushed without being counted.
SeedDeltaNone == 1 - 1

\* c.wg.Add(1)
SeedDelta == 1

StartAddSeed ==
    /\ Alive
    /\ pcMain = "add_seed"
    /\ wg' = wg + SeedDelta
    /\ pcMain' = "push_seed"
    /\ UNCHANGED <<params, spawned, count, watchVars, jobs, visited,
                   workerVars, failed, histVars, panicked, xVars, rVars>>

\* c.redisClient.client.LPush(ctx, "jobs", data), its result ignored.
StartPushSeed ==
    /\ Alive
    /\ pcMain = "push_seed"
    /\ pcMain' = "spawn"
    /\ \/ /\ jobs' = LPush(jobs, Marshal(url, maxDepth))
          /\ UNCHANGED failed
       \/ /\ CanFail
          /\ failed' = Fail("push")
          /\ UNCHANGED jobs
    /\ UNCHANGED <<params, spawned, count, watchVars, wg, visited,
                   workerVars, histVars, panicked, xVars, rVars>>

\* for i := 0; i < workerCount; i++ { go c.worker() }
StartSpawn ==
    /\ Alive
    /\ pcMain = "spawn"
    /\ spawned < workerCount
    /\ spawned' = spawned + 1
    /\ pcW' = [pcW EXCEPT ![spawned + 1] = "pop"]
    /\ UNCHANGED <<params, pcMain, count, watchVars, wg, jobs, visited,
                   item, links, found, issued, failed, histVars, panicked, xVars, rVars>>

\* <-done
StartRecvDone ==
    /\ Alive
    /\ pcMain = "spawn"
    /\ spawned >= workerCount
    /\ done
    /\ pcMain' = "returned"
    /\ UNCHANGED <<params, spawned, count, watchVars, wg, jobs, visited,
                   workerVars, failed, histVars, panicked, xVars, rVars>>

\* Back in main: SCARD visited_urls, print, return; the process ends and
\* takes every goroutine with it.
MainReport ==
    /\ Alive
    /\ entry = "main"
    /\ pcMain = "returned"
    /\ count' = Cardinality(visited)
    /\ pcMain' = "exited"
    /\ UNCHANGED <<params, spawned, watchVars, wg, jobs, visited,
                   workerVars, failed, histVars, panicked, xVars, rVars>>

\* ------------------------------------------------------------ coordinator
\* c.wg.Wait() returns once it reads a zero counter.
WaitReturns(n) == n = 0

WatcherWait ==
    /\ Alive
    /\ pcWatch = "wait"
    /\ WaitReturns(wg)
    /\ pcWatch' = "close"
    /\ UNCHANGED <<params, mainVars, done, wg, jobs, visited,
                   workerVars, failed, histVars, panicked, xVars, rVars>>

\* close(done)
WatcherClose ==
    /\ Alive
    /\ pcWatch = "close"
    /\ done' = TRUE
    /\ pcWatch' = "exit"
    /\ UNCHANGED <<params, mainVars, wg, jobs, visited,
                   workerVars, failed, histVars, panicked, xVars, rVars>>

\* ----------------------------------------------------------------- worker
\* BRPop returned a value: unmarshal it; a payload that does not unmarshal
\* goes straight to c.wg.Done().
WorkerPop(w) ==
    /\ Alive
    /\ pcW[w] = "pop"
    /\ jobs # <<>>
    /\ LET got == Unmarshal(BRPopValue(jobs))
       IN  /\ jobs' = BRPopRest(jobs)
           /\ item' = [item EXCEPT ![w] = got.item]
           /\ pcW' = [pcW EXCEPT ![w] = IF got.err THEN "done" ELSE "process"]
    /\ UNCHANGED <<params, mainVars, watchVars, wg, visited, links, found,
                   issued, failed, histVars, panicked, xVars, rVars>>

\* A faulty variant: a failed pop is settled like a popped task.
AfterPopErrorDone == "done"

\* Where a worker goes when BRPop returned an error.
AfterPopError == "sleep"

\* BRPop returned an error: print it and time.Sleep(time.Second).
WorkerPopError(w) ==
    /\ Alive
    /\ pcW[w] = "pop"
    /\ CanFail
    /\ failed' = Fail("pop")
    /\ pcW' = [pcW EXCEPT ![w] = AfterPopError]
    /\ UNCHANGED <<params, mainVars, watchVars, wg, jobs, visited, item,
                   links, found, issued, histVars, panicked, xVars, rVars>>

\* continue, after the sleep.
WorkerRetry(w) ==
    /\ Alive
    /\ pcW[w] = "sleep"
    /\ pcW' = [pcW EXCEPT ![w] = "pop"]
    /\ UNCHANGED <<params, mainVars, watchVars, wg, jobs, visited, item,
                   links, found, issued, failed, histVars, panicked, xVars, rVars>>

\* A faulty variant: a task at depth 0 passes the depth test.
DepthExceededStrict(it) == it.Depth < 0

\* process: item.Depth <= 0
DepthExceeded(it) == it.Depth <= 0

\* A faulty variant: a store error reports the address as new.
SeenOnErrorNew == FALSE

\* CheckAndMark's result when SAdd returned an error.
SeenOnError == TRUE

\* A faulty variant: the test of SAdd's answer is the wrong way round.
SeenOnReplyInverted(added) == added # 0

\* CheckAndMark's result when SAdd answered: added == 0.
SeenOnReply(added) == added = 0

\* process: the base cases. The depth test short-circuits CheckAndMark.
WorkerProcess(w) ==
    /\ Alive
    /\ pcW[w] = "process"
    /\ \/ /\ DepthExceeded(item[w])
          /\ pcW' = [pcW EXCEPT ![w] = "done"]
          /\ UNCHANGED <<visited, failed, news>>
       \/ /\ ~DepthExceeded(item[w])
          /\ LET seen == SeenOnReply(SAddAdded(visited, item[w].URL))
             IN  /\ visited' = SAddSet(visited, item[w].URL)
                 /\ pcW' = [pcW EXCEPT ![w] = IF seen THEN "done" ELSE "extract"]
                 /\ news' = IF seen THEN news
                            ELSE [news EXCEPT ![item[w].URL] = @ + 1]
          /\ UNCHANGED failed
       \/ /\ ~DepthExceeded(item[w])
          /\ CanFail
          /\ failed' = Fail("sadd")
          /\ pcW' = [pcW EXCEPT ![w] = IF SeenOnError THEN "done" ELSE "extract"]
          /\ news' = IF SeenOnError THEN news
                     ELSE [news EXCEPT ![item[w].URL] = @ + 1]
          /\ UNCHANGED visited
    /\ UNCHANGED <<params, mainVars, watchVars, wg, jobs, item, links, found,
                   issued, fetches, panicked, xVars, rVars>>

\* Where process goes after extractLinks returned links, after wg.Add(1) and
\* after LPush: the range loop, then the return to worker's c.wg.Done().
AfterExtract(ls) == IF ls = <<>> THEN "done" ELSE "add"

AfterAdd == "push"

\* A faulty variant: process returns after the first child.
AfterPushReturns(rest) == "done"

AfterPush(rest) == IF rest = <<>> THEN "done" ELSE "add"

\* Where process goes when extractLinks returned an error: return, to
\* worker's c.wg.Done().
AfterFetchError == "done"

\* process: links, err := extractLinks(...); if err != nil { return }
WorkerExtract(w) ==
    /\ Alive
    /\ pcW[w] = "extract"
    /\ fetches' = [fetches EXCEPT ![item[w].URL] = @ + 1]
    /\ LET resp == Get(web, item[w].URL)
       IN  \/ /\ resp.status = 200
              /\ LET ls == extractLinks(item[w].URL, resp.doc)
                 IN  /\ links' = [links EXCEPT ![w] = ls]
                     /\ found' = [found EXCEPT ![w] = ls]
                     /\ pcW' = [pcW EXCEPT ![w] = AfterExtract(ls)]
              /\ UNCHANGED failed
           \/ /\ resp.status # 200
              /\ pcW' = [pcW EXCEPT ![w] = AfterFetchError]
              /\ UNCHANGED <<links, found, failed>>
           \/ /\ CanFail
              /\ failed' = Fail("fetch")
              /\ pcW' = [pcW EXCEPT ![w] = AfterFetchError]
              /\ UNCHANGED <<links, found>>
    /\ UNCHANGED <<params, mainVars, watchVars, wg, jobs, visited, item,
                   issued, news, panicked, xVars, rVars>>

\* A faulty variant: the child is pushed without being counted.
ChildDeltaNone == 1 - 1

\* c.wg.Add(1) for the link at the head of the range.
ChildDelta == 1

WorkerAdd(w) ==
    /\ Alive
    /\ pcW[w] = "add"
    /\ wg' = wg + ChildDelta
    /\ issued' = [issued EXCEPT ![w] = Append(@, <<"add", Head(links[w])>>)]
    /\ pcW' = [pcW EXCEPT ![w] = AfterAdd]
    /\ UNCHANGED <<params, mainVars, watchVars, jobs, visited, item, links,
                   found, failed, histVars, panicked, xVars, rVars>>

\* A faulty variant: the child inherits its parent's depth.
ChildDepthSame(d) == d

\* The depth a child task carries.
ChildDepth(d) == d - 1

\* LPush of the child, its result ignored.
WorkerPush(w) ==
    /\ Alive
    /\ pcW[w] = "push"
    /\ issued' = [issued EXCEPT ![w] = Append(@, <<"push", Head(links[w])>>)]
    /\ links' = [links EXCEPT ![w] = Tail(@)]
    /\ pcW' = [pcW EXCEPT ![w] = AfterPush(Tail(links[w]))]
    /\ \/ /\ jobs' = LPush(jobs, Marshal(Head(links[w]), ChildDepth(item[w].Depth)))
          /\ UNCHANGED failed
       \/ /\ CanFail
          /\ failed' = Fail("push")
          /\ UNCHANGED jobs
    /\ UNCHANGED <<params, mainVars, watchVars, wg, visited, item, found,
                   histVars, panicked, xVars, rVars>>

\* A faulty variant: two units are taken off for one task.
DoneDeltaTwice == 0 - 2

\* c.wg.Done(); a counter below zero panics. The next iteration starts with
\* a fresh item.
DoneDelta == -1

WorkerDone(w) ==
    /\ Alive
    /\ pcW[w] = "done"
    /\ wg' = wg + DoneDelta
    /\ panicked' = (wg + DoneDelta < 0)
    /\ pcW' = [pcW EXCEPT ![w] = "pop"]
    /\ item' = [item EXCEPT ![w] = ZeroItem]
    /\ links' = [links EXCEPT ![w] = <<>>]
    /\ found' = [found EXCEPT ![w] = <<>>]
    /\ issued' = [issued EXCEPT ![w] = <<>>]
    /\ UNCHANGED <<params, mainVars, watchVars, jobs, visited, failed,
                   histVars, xVars, rVars>>

Worker(w) ==
    \/ WorkerPop(w)
    \/ WorkerPopError(w)
    \/ WorkerRetry(w)
    \/ WorkerProcess(w)
    \/ WorkerExtract(w)
    \/ WorkerAdd(w)
    \/ WorkerPush(w)
    \/ WorkerDone(w)

Next ==
    \/ MainValidate
    \/ StartGoWatcher
    \/ StartAddSeed
    \/ StartPushSeed
    \/ StartSpawn
    \/ StartRecvDone
    \/ MainReport
    \/ WatcherWait
    \/ WatcherClose
    \/ \E w \in Workers : Worker(w)

Spec == Init /\ [][Next]_vars

\* ------------------------------------------------ a store that is not new
\* A payload in the list that is not JSON: no call of this program wrote it.
Garbage == [syntax |-> "text", url |-> "", depth |-> 0]

\* What the list "jobs" holds when the program starts, head first: nothing,
\* payloads of another producer, a task an earlier run left behind.
Leftovers == {<<>>, <<Garbage, Garbage>>, <<Marshal("B", 1)>>}

\* What the set "visited_urls" holds when the program starts: nothing, or an
\* address of an earlier crawl.
LeftVisited == {{}, {"B"}}

\* The program started by its CLI on a Redis server that kept its keys: main
\* and Start neither delete "jobs" nor "visited_urls".
StoreInit ==
    /\ entry = "main"
    /\ url = SeedUrl
    /\ maxDepth \in 1..MaxDepth
    /\ workerCount \in 1..MaxWorkers
    /\ web = "dup"
    /\ maxDepth <= WebLevels(web)
    /\ jobs0 \in Leftovers
    /\ visited0 \in IF jobs0 = <<>> THEN LeftVisited ELSE {{}}
    /\ pcMain = "main"
    /\ spawned = 0
    /\ count = -1
    /\ pcWatch = "none"
    /\ done = FALSE
    /\ wg = 0
    /\ jobs = jobs0
    /\ visited = visited0
    /\ pcW = [w \in Workers |-> "none"]
    /\ item = [w \in Workers |-> ZeroItem]
    /\ links = [w \in Workers |-> <<>>]
    /\ found = [w \in Workers |-> <<>>]
    /\ issued = [w \in Workers |-> <<>>]
    /\ failed = [k \in FaultKinds |-> 0]
    /\ news = [u \in Addrs |-> 0]
    /\ fetches = [u \in Addrs |-> 0]
    /\ panicked = FALSE
    /\ ExtractOff
    /\ WrapperOff

StoreSpec == StoreInit /\ [][Next]_vars

\* ------------------------------------------------- extractLinks on its own
\* The walk of one parsed document, an iteration of the loop per step.
XInit ==
    /\ entry = "main"
    /\ url = ""
    /\ maxDepth = 0
    /\ workerCount = 0
    /\ web = "cycle"
    /\ pcMain = "main"
    /\ spawned = 0
    /\ count = -1
    /\ pcWatch = "none"
    /\ done = FALSE
    /\ wg = 0
    /\ jobs0 = <<>>
    /\ visited0 = {}
    /\ jobs = jobs0
    /\ visited = visited0
    /\ pcW = [w \in Workers |-> "none"]
    /\ item = [w \in Workers |-> ZeroItem]
    /\ links = [w \in Workers |-> <<>>]
    /\ found = [w \in Workers |-> <<>>]
    /\ issued = [w \in Workers |-> <<>>]
    /\ failed = [k \in FaultKinds |-> 0]
    /\ news = [u \in Addrs |-> 0]
    /\ fetches = [u \in Addrs |-> 0]
    /\ panicked = FALSE
    /\ xbase = SeedUrl
    /\ xdoc \in Docs
    /\ xst = ExtractStart(xdoc)
    /\ xpc = "loop"
    /\ xresult = <<>>
    /\ WrapperOff

\* for len(stack) > 0 { ... if len(links) >= 10 { break } }
XStep ==
    /\ xpc = "loop"
    /\ ExtractRunning(xst)
    /\ xst' = ExtractStep(xbase, xst)
    /\ UNCHANGED <<crawlVars, xbase, xdoc, xpc, xresult, rVars>>

\* return links, nil
XReturn ==
    /\ xpc = "loop"
    /\ ~ExtractRunning(xst)
    /\ xresult' = xst.links
    /\ xpc' = "returned"
    /\ UNCHANGED <<crawlVars, xbase, xdoc, xst, rVars>>

XNext == XStep \/ XReturn

ExtractSpec == XInit /\ [][XNext]_vars


\* -------------------------------------- RedisClient.CheckAndMark on its own
\* The wrapper of redis.go, called by several goroutines at once on one
\* server: an EXISTS and a SET per call, each a command of its own.
WrapperKeys == {"A", "B"}

WrapperInit ==
    /\ entry = "main"
    /\ url = ""
    /\ maxDepth = 0
    /\ workerCount = 0
    /\ web = "cycle"
    /\ jobs0 = <<>>
    /\ visited0 = {}
    /\ pcMain = "main"
    /\ spawned = 0
    /\ count = -1
    /\ pcWatch = "none"
    /\ done = FALSE
    /\ wg = 0
    /\ jobs = jobs0
    /\ visited = visited0
    /\ pcW = [w \in Workers |-> "none"]
    /\ item = [w \in Workers |-> ZeroItem]
    /\ links = [w \in Workers |-> <<>>]
    /\ found = [w \in Workers |-> <<>>]
    /\ issued = [w \in Workers |-> <<>>]
    /\ failed = [k \in FaultKinds |-> 0]
    /\ news = [u \in Addrs |-> 0]
    /\ fetches = [u \in Addrs |-> 0]
    /\ panicked = FALSE
    /\ ExtractOff
    /\ rkeys \in {{}, {"A"}}
    /\ rurl \in [Callers -> WrapperKeys]
    /\ rpc = [c \in Callers |-> "exists"]
    /\ rexist = [c \in Callers |-> 0]
    /\ rret = [c \in Callers |-> "none"]

\* exist := r.client.Exists(ctx, u).Val()
RExists(c) ==
    /\ rpc[c] = "exists"
    /\ rexist' = [rexist EXCEPT ![c] = IF rurl[c] \in rkeys THEN 1 ELSE 0]
    /\ rpc' = [rpc EXCEPT ![c] = "test"]
    /\ UNCHANGED <<crawlVars, xVars, rkeys, rurl, rret>>

\* if exist == 1 { return true }
RTest(c) ==
    /\ rpc[c] = "test"
    /\ IF rexist[c] = 1
       THEN /\ rret' = [rret EXCEPT ![c] = "true"]
            /\ rpc' = [rpc EXCEPT ![c] = "returned"]
       ELSE /\ rpc' = [rpc EXCEPT ![c] = "set"]
            /\ UNCHANGED rret
    /\ UNCHANGED <<crawlVars, xVars, rkeys, rurl, rexist>>

\* r.client.Set(ctx, u, "", 0); return false
RSet(c) ==
    /\ rpc[c] = "set"
    /\ rkeys' = rkeys \cup {rurl[c]}
    /\ rret' = [rret EXCEPT ![c] = "false"]
    /\ rpc' = [rpc EXCEPT ![c] = "returned"]
    /\ UNCHANGED <<crawlVars, xVars, rurl, rexist>>

RNext == \E c \in Callers : RExists(c) \/ RTest(c) \/ RSet(c)

WrapperSpec == WrapperInit /\ [][RNext]_vars

\* The Go scheduler runs every runnable goroutine again: main, the
\* coordinator and each worker keep taking steps while they can.
MainStep ==
    \/ MainValidate
    \/ StartGoWatcher
    \/ StartAddSeed
    \/ StartPushSeed
    \/ StartSpawn
    \/ StartRecvDone
    \/ MainReport

WatcherStep == WatcherWait \/ WatcherClose

FairSpec ==
    /\ Spec
    /\ WF_vars(MainStep)
    /\ WF_vars(WatcherStep)
    /\ \A w \in Workers : WF_vars(Worker(w))

\* --------------------------------------------------------------- properties
\* A worker holds a popped task whose wg.Done() has not run yet.
InFlight(w) == pcW[w] \in {"process", "extract", "add", "push", "done"}

NumInFlight == Cardinality({w \in Workers : InFlight(w)})

\* Start has issued the seed's wg.Add(1).
SeedCounted == pcMain \in {"push_seed", "spawn", "returned", "exited"}

\* Every worker Start asked for runs and is blocked in BRPop on an empty
\* list, and Start has nothing left to do but wait.
Quiescent ==
    /\ pcMain \in {"spawn", "returned"}
    /\ spawned = workerCount
    /\ workerCount > 0
    /\ jobs = <<>>
    /\ \A w \in 1..workerCount : pcW[w] = "pop"

\* C1: at-most-once processing. For every address CheckAndMark returns false
\* ("new") at most once over the run, an address is fetched only by the caller
\* that got "new", and an address is in the Visited Set exactly when some
\* caller got "new" for it; so of the tasks popped for one address at most
\* one worker is ever past the check, the others only reach wg.Done().
C1_AtMostOnce ==
    /\ \A u \in Addrs :
        /\ news[u] <= 1
        /\ fetches[u] <= news[u]
        /\ (u \in visited) <=> (news[u] = 1)
    /\ \A w1, w2 \in Workers :
        (/\ w1 # w2
         /\ pcW[w1] \in {"extract", "add", "push"}
         /\ pcW[w2] \in {"extract", "add", "push"})
        => item[w1].URL # item[w2].URL

\* Two workers hold tasks for the same address with depth left: one is at the
\* fetch, the other was turned away and is about to decrement.
C1_Witness ==
    \E w1, w2 \in Workers :
        /\ w1 # w2
        /\ pcW[w1] = "extract"
        /\ pcW[w2] = "done"
        /\ item[w1].URL = item[w2].URL
        /\ item[w2].Depth > 0
        /\ NumFailed = 0

\* C2: no false completion. close(done) has run only if the seed's wg.Add(1)
\* was issued and the counter is back at zero with no task queued or held by
\* a worker.
C2_NoFalseCompletion ==
    done => /\ SeedCounted
            /\ wg = 0
            /\ jobs = <<>>
            /\ NumInFlight = 0

\* No step is left to take: every goroutine is blocked or the process ended.
\* (Every run of the model is finite: each task is settled after finitely many
\* steps, the depth bounds the tasks and MaxFaults the retries.)
Halted == ~ENABLED Next

\* Start has returned to its caller.
StartReturned == pcMain \in {"returned", "exited"}

\* C3: termination. With valid flags and no failed push or pop, a run ends
\* only with the counter at zero after the seed was counted and with Start
\* returned.
C3_Termination ==
    (FlagsValid /\ failed["push"] = 0 /\ failed["pop"] = 0 /\ Halted)
        => (SeedCounted /\ wg = 0 /\ StartReturned)

\* The same as a liveness property under fair scheduling.
TerminationLive ==
    FlagsValid =>
        <>(\/ failed["push"] > 0
           \/ failed["pop"] > 0
           \/ (SeedCounted /\ wg = 0 /\ StartReturned))

\* Half of it holds: unless a push is lost, a run ends only after Start has
\* returned (or main has rejected the flags).
StartReturnsAtEnd ==
    (lost = 0 /\ Halted) => (StartReturned \/ pcMain = "rejected")

\* C4: counter invariant. The counter is at least the number of queued tasks
\* plus the number of tasks popped and not yet settled, so it is zero only
\* when there is none.
C4_CounterInvariant ==
    /\ wg >= Len(jobs) + NumInFlight
    /\ wg = 0 => (jobs = <<>> /\ NumInFlight = 0)

\* The counter is exactly used up by two queued tasks and two held ones.
C4_Witness ==
    /\ Len(jobs) >= 2
    /\ NumInFlight >= 2
    /\ wg = Len(jobs) + NumInFlight

\* The calls process issues for links ls, in order: Add then LPush per link.
Expected(ls) ==
    [i \in 1..(2 * Len(ls)) |->
        IF i % 2 = 1 THEN <<"add", ls[(i + 1) \div 2]>> ELSE <<"push", ls[i \div 2]>>]

IsPrefix(a, b) == Len(a) <= Len(b) /\ a = SubSeq(b, 1, Len(a))

\* C5: increment-before-decrement ordering. What a worker has issued for its
\* task is always a prefix of Add(1), LPush, Add(1), LPush, ... over the
\* extracted links in order, so each child's Add precedes its push; and when
\* the worker stands at wg.Done() all of them have been issued.
C5_Ordering ==
    \A w \in Workers :
        /\ IsPrefix(issued[w], Expected(found[w]))
        /\ pcW[w] = "done" => issued[w] = Expected(found[w])
        /\ Len(found[w]) = Len(links[w]) + Len(issued[w]) \div 2

\* A worker is about to call wg.Done() for a task with two or more children,
\* all counted and pushed.
C5_Witness ==
    \E w \in Workers :
        /\ pcW[w] = "done"
        /\ Len(found[w]) >= 2
        /\ issued[w] = Expected(found[w])

\* What a step of worker w leaves alone when it drops a task.
DropsOnly(w) ==
    /\ pcW'[w] = "done"
    /\ visited' = visited
    /\ jobs' = jobs
    /\ wg' = wg
    /\ fetches' = fetches
    /\ news' = news
    /\ issued'[w] = <<>>

\* wg.Done() for w's task takes exactly one off the counter and nothing else.
SettlesOnce(w) ==
    (pcW[w] = "done" /\ pcW'[w] # "done") =>
        /\ wg' = wg - 1
        /\ pcW'[w] = "pop"
        /\ jobs' = jobs
        /\ visited' = visited

C6_State ==
    /\ \A w \in Workers : pcW[w] \in {"extract", "add", "push"} => item[w].Depth > 0
    /\ maxDepth = 0 => /\ visited = {}
                       /\ \A u \in Addrs : fetches[u] = 0 /\ news[u] = 0

C6_Step ==
    \A w \in Workers :
        /\ (pcW[w] = "process" /\ item[w].Depth <= 0 /\ pcW'[w] # "process")
              => (DropsOnly(w) /\ failed' = failed)
        /\ item[w].Depth <= 0 => SettlesOnce(w)

\* C6: depth bound. A popped task with depthRemaining <= 0 goes from the
\* depth test straight to wg.Done() with no SADD (the Visited Set and the
\* store's failure count unchanged), no fetch and no push, and wg.Done() takes
\* exactly one off the counter; no worker is ever past the check with such a
\* task, and a seed at depth 0 leaves the Visited Set empty with no fetch.
C6_DepthBound == []C6_State /\ [][C6_Step]_vars

\* A child task at depth 0 was dropped: its worker stands at wg.Done() and the
\* address is not in the Visited Set.
C6_Witness ==
    \E w \in Workers :
        /\ pcW[w] = "done"
        /\ item[w].Depth = 0
        /\ item[w].URL \in Addrs
        /\ item[w].URL \notin visited
        /\ maxDepth > 0


\* C7: link cap. At every iteration of extractLinks' loop, for every input
\* page, the links slice holds at most 10 addresses, and so does the slice
\* returned, which is the one process ranges over.
C7_LinkCap ==
    /\ Len(xst.links) <= MaxLinks
    /\ xpc = "returned" => /\ Len(xresult) <= MaxLinks
                           /\ xresult = extractLinks(xbase, xdoc)

\* extractLinks returned 10 links and left an anchor on its stack unvisited.
C7_Witness ==
    /\ xpc = "returned"
    /\ Len(xresult) = MaxLinks
    /\ \E i \in 1..Len(xst.stack) : IsAnchor(xst.stack[i])

\* In the crawl: no task has more than 10 children counted and pushed.
PushCap ==
    \A w \in Workers : Len(found[w]) <= MaxLinks /\ Len(issued[w]) <= 2 * MaxLinks

\* Where every unit of the counter is: queued, held by a worker, counted for
\* a child not pushed yet, counted for the seed not pushed yet, or lost with
\* a failed push.
CounterAccounting ==
    wg = Len(jobs) + NumInFlight + lost
         + Cardinality({w \in Workers : pcW[w] = "push"})
         + (IF pcMain = "push_seed" THEN 1 ELSE 0)

C8_Step ==
    \A w \in Workers :
        /\ (pcW[w] = "process" /\ pcW'[w] # "process" /\ failed'["sadd"] # failed["sadd"])
              => (DropsOnly(w) /\ links'[w] = <<>> /\ found'[w] = <<>>)
        /\ SettlesOnce(w)

\* C8: degraded dedup safety. When SADD returns an error the worker goes
\* straight to wg.Done(): nothing is fetched, pushed, marked or put back on
\* the queue, and wg.Done() takes exactly one off the counter; and a run in
\* which the store failed ends, unless a push was lost, only after Start has
\* returned.
C8_DegradedDedup ==
    /\ [][C8_Step]_vars
    /\ []((failed["sadd"] > 0 /\ lost = 0 /\ Halted) => StartReturned)

\* The same end as a liveness property under fair scheduling.
DegradedDedupLive ==
    (failed["sadd"] > 0) ~> (StartReturned \/ lost > 0)

\* The store failed on the seed: nothing was marked or fetched, the counter is
\* back at zero and Start has returned.
C8_Witness ==
    /\ failed["sadd"] = 1
    /\ visited = {}
    /\ \A u \in Addrs : fetches[u] = 0
    /\ wg = 0
    /\ Quiescent
    /\ pcMain = "returned"

\* The GET for the task worker w holds fails in this step.
FetchFailsNow(w) ==
    /\ pcW[w] = "extract"
    /\ pcW'[w] # "extract"
    /\ (Get(web, item[w].URL).status # 200 \/ failed'["fetch"] # failed["fetch"])

C9_Step ==
    \A w \in Workers :
        /\ FetchFailsNow(w) =>
              /\ pcW'[w] = "done"
              /\ jobs' = jobs
              /\ wg' = wg
              /\ visited' = visited
              /\ item[w].URL \in visited
              /\ links'[w] = <<>>
              /\ issued'[w] = <<>>
        /\ SettlesOnce(w)

\* The task-level part of C9: a failed fetch sends the worker straight to
\* wg.Done() with nothing pushed or counted, the address stays in the Visited
\* Set (which never shrinks), and wg.Done() takes exactly one off the counter.
FetchFailureHandling == [][C9_Step /\ visited \subseteq visited']_vars

\* Some fetch of the run has failed.
FetchFailedSoFar ==
    \/ failed["fetch"] > 0
    \/ \E u \in Addrs : fetches[u] > 0 /\ Get(web, u).status # 200

\* C9: fetch/parse failure handling. A failed fetch is handled as in
\* FetchFailureHandling, and a run with a failed fetch and no failed push or
\* pop ends only with the counter at zero.
C9_FetchFailure ==
    /\ FetchFailureHandling
    /\ []((FetchFailedSoFar /\ failed["push"] = 0 /\ failed["pop"] = 0 /\ Halted)
            => wg = 0)

\* C10: frontier push failure. A failed push never leaves the counter stuck
\* above zero: whenever every worker is blocked on an empty queue, the
\* counter is zero.
C10_NoStuckCounter == Quiescent => wg = 0

\* Without a failed push the counter is zero whenever the workers are idle.
StuckOnlyByLostPush == (Quiescent /\ lost = 0) => wg = 0

\* ------------------------------------------------------------------- C11
\* Worker w holds a payload that did not unmarshal and has yet to call
\* c.wg.Done() for it.
DroppedUnread(w) == pcW[w] = "done" /\ item[w] = ZeroItem

\* Worker w takes a payload that does not unmarshal off the list.
PopsMalformed(w) ==
    /\ pcW[w] = "pop"
    /\ pcW'[w] \notin {"pop", "sleep"}
    /\ Unmarshal(BRPopValue(jobs)).err

\* The part of the malformed-payload branch that holds in every run: the
\* payload leaves the list and goes straight to c.wg.Done(), with no SADD,
\* no GET and no LPUSH, and the counter goes down by one for it and no more.
MalformedStep ==
    \A w \in Workers :
        /\ PopsMalformed(w) =>
              /\ pcW'[w] = "done"
              /\ jobs' = BRPopRest(jobs)
              /\ UNCHANGED <<wg, visited, news, fetches>>
        /\ (DroppedUnread(w) /\ pcW'[w] # "done") =>
              /\ wg' = wg - 1
              /\ pcW'[w] = "pop"
              /\ UNCHANGED <<jobs, visited, news, fetches>>

MalformedHandling == [][MalformedStep]_vars

\* C11: a popped payload that does not deserialize is dropped without
\* check-and-mark, fetch or push, the counter is decremented exactly once for
\* it, and the worker goes on with its loop: the decrement does not end the
\* process.
C11_Step ==
    /\ MalformedStep
    /\ \A w \in Workers : (DroppedUnread(w) /\ pcW'[w] # "done") => ~panicked'

C11_MalformedDropped == [][C11_Step]_vars

\* A worker that dropped a malformed payload is back at its pop.
MalformedSurvived ==
    /\ jobs0 = <<Garbage, Garbage>>
    /\ Len(jobs) < Len(jobs0) + 1
    /\ \E w \in Workers : pcW[w] = "pop" /\ wg = 0 /\ ~panicked

\* ------------------------------------------------------------------- C12
\* No work has begun: no wg.Add, no LPush, no worker and no coordinator
\* goroutine, no SADD, no GET.
NothingStarted ==
    /\ wg = 0
    /\ jobs = jobs0
    /\ visited = visited0
    /\ spawned = 0
    /\ pcWatch = "none"
    /\ \A w \in Workers : pcW[w] = "none"
    /\ \A u \in Addrs : news[u] = 0 /\ fetches[u] = 0

\* C12: the program checks maxDepth > 0 and workerCount > 0 before it starts
\* anything, and with a value that fails the check it rejects the run with no
\* counter increment, no push and no worker started.
C12_InputValidation ==
    entry = "main" =>
        /\ pcMain = "main" => NothingStarted
        /\ ~(maxDepth > 0 /\ workerCount > 0) =>
              NothingStarted /\ pcMain \in {"main", "rejected"}

\* A run with --depth 0 and --workers 0 and a seed address was rejected.
C12_Witness ==
    /\ entry = "main"
    /\ url = SeedUrl
    /\ maxDepth = 0
    /\ workerCount = 0
    /\ pcMain = "rejected"

\* ------------------------------------------------------------------- C13
\* The tasks counted and not yet settled: queued, held by a worker, counted
\* for a child or the seed whose LPush is next, or lost with a failed LPush.
Owed ==
    Len(jobs) + NumInFlight + lost
    + Cardinality({w \in Workers : pcW[w] = "push"})
    + (IF pcMain = "push_seed" THEN 1 ELSE 0)

C13_State ==
    /\ ~SeedCounted => wg = 0
    /\ wg + Len(jobs0) = Owed
    /\ jobs0 = <<>> => (wg >= 0 /\ ~panicked)

C13_Step ==
    /\ wg' # wg =>
          \/ /\ wg' = wg + 1
             /\ \/ pcMain = "add_seed" /\ pcMain' = "push_seed"
                \/ \E w \in Workers : pcW[w] = "add" /\ pcW'[w] = "push"
          \/ /\ wg' = wg - 1
             /\ \E w \in Workers : pcW[w] = "done" /\ pcW'[w] = "pop"
    /\ Len(jobs') > Len(jobs) =>
          /\ Len(jobs') = Len(jobs) + 1
          /\ wg' = wg
          /\ \/ pcMain = "push_seed" /\ pcMain' # "push_seed"
             \/ \E w \in Workers : pcW[w] = "push" /\ pcW'[w] # "push"
    /\ \A w \in Workers :
          /\ (pcW[w] = "pop" /\ pcW'[w] \notin {"pop", "sleep"}) =>
                (jobs' = BRPopRest(jobs) /\ wg' = wg /\ pcW'[w] \in {"process", "done"})
          /\ (InFlight(w) /\ pcW[w] # "done") => InFlight(w)'
          /\ SettlesOnce(w)

\* C13: counter lifecycle. The counter is 0 until the seed is counted, goes
\* up by one exactly at the wg.Add(1) that precedes each LPush (seed and
\* children) and down by one exactly at the wg.Done() that ends the handling
\* of each popped entry, whichever way the worker loop handled it; so the
\* counter plus the entries found in the list at the start equals the tasks
\* counted and not yet settled, and with a list that was empty at the start
\* the counter is never negative.
C13_CounterLifecycle == []C13_State /\ [][C13_Step]_vars

\* A crawl on an empty list came back to zero after a fetched page, tasks
\* turned away as already visited and a page that answered 404.
C13_Witness ==
    /\ jobs0 = <<>>
    /\ visited0 = {}
    /\ SeedCounted
    /\ wg = 0
    /\ NumFailed = 0
    /\ fetches["A"] = 1
    /\ fetches["D"] = 1
    /\ ~panicked

\* Without the premise: entries found in the list were never counted, and
\* their wg.Done() takes the counter below zero.
CounterNeverNegative == wg >= 0

\* ------------------------------------------------------------------- C14
\* The depths of the tasks in the list and in the workers' hands.
C14_State ==
    /\ \A i \in 1..Len(jobs) :
          /\ ~Unmarshal(jobs[i]).err
          /\ Unmarshal(jobs[i]).item.Depth \in 0..maxDepth
    /\ \A w \in Workers : item[w].Depth \in 0..maxDepth

C14_Step ==
    /\ (pcMain = "push_seed" /\ pcMain' # pcMain /\ Len(jobs') > Len(jobs)) =>
          Unmarshal(Head(jobs')).item = [URL |-> url, Depth |-> maxDepth]
    /\ \A w \in Workers :
          /\ (pcW[w] = "push" /\ links'[w] # links[w] /\ Len(jobs') > Len(jobs)) =>
                /\ Unmarshal(Head(jobs')).item.Depth = item[w].Depth - 1
                /\ Unmarshal(Head(jobs')).item.URL = Head(links[w])
          /\ (InFlight(w) /\ pcW[w] # "done") => item'[w] = item[w]
    /\ \/ jobs' = jobs
       \/ jobs' = BRPopRest(jobs)
       \/ Tail(jobs') = jobs

\* C14: depth decreases by exactly 1 per hop. The seed is pushed with
\* maxDepth, each child pushed while a task with depth d is processed carries
\* d - 1, no queued or held task changes, and every task in the list or in
\* a worker's hands has a depth between 0 and maxDepth.
C14_DepthPerHop == []C14_State /\ [][C14_Step]_vars

\* Three hops deep: the list holds a task with depth 0 while maxDepth is 3.
C14_Witness ==
    /\ maxDepth = 3
    /\ \E i \in 1..Len(jobs) : jobs[i].depth = 0

\* ------------------------------------------------------------------- C15
\* The nodes of a tree, written down independently of the loop: a node, then its
\* children from the last to the first, each followed by its own subtree.
RECURSIVE NodeFirstRightToLeft(_), KidsRightToLeft(_, _)
NodeFirstRightToLeft(n) == <<n>> \o KidsRightToLeft(n.kids, Len(n.kids))

KidsRightToLeft(ks, i) ==
    IF i = 0 THEN <<>>
    ELSE NodeFirstRightToLeft(ks[i]) \o KidsRightToLeft(ks, i - 1)

\* The href attributes of a node, in document order.
Hrefs(n) == SelectSeq(n.attr, LAMBDA a : a.key = "href")

\* The address an anchor contributes: its first href, resolved; "" when the
\* node is no anchor, has no href or the href does not resolve.
Contribution(base, n) ==
    IF n.type = "element" /\ n.data = "a" /\ Hrefs(n) # <<>>
    THEN resolveURL(base, Head(Hrefs(n)).val)
    ELSE ""

\* All k resolved addresses of a document, in traversal order.
ResolvedInOrder(base, doc) ==
    LET ns == SelectSeq(NodeFirstRightToLeft(doc), LAMBDA n : Contribution(base, n) # "")
    IN  [i \in 1..Len(ns) |-> Contribution(base, ns[i])]

FirstN(q, n) == SubSeq(q, 1, IF Len(q) < n THEN Len(q) ELSE n)

\* C15: extractor result. For every node tree extractLinks returns exactly
\* the first min(10, k) of the k resolved addresses (first href of each
\* anchor) in the order node first, children right to left; with 15 distinct
\* resolvable anchors it returns 10 and leaves the other 5 out.
C15_ExtractorResult ==
    xpc = "returned" =>
        /\ xresult = FirstN(ResolvedInOrder(xbase, xdoc), MaxLinks)
        /\ xresult = extractLinks(xbase, xdoc)

\* A page of 15 anchors "1" .. "15" side by side: the 10 links returned are
\* "15" down to "6", and "1" .. "5" are not among them.
C15_Witness ==
    /\ xpc = "returned"
    /\ xdoc = DocFlat(15)
    /\ Len(ResolvedInOrder(xbase, xdoc)) = 15
    /\ Len(xresult) = 10
    /\ xresult[1] = "15"
    /\ xresult[10] = "6"
    /\ \A i \in 1..10 : xresult[i] \notin {"1", "2", "3", "4", "5"}

\* ------------------------------------------------------------------- C16
C16_Step ==
    \A w \in Workers :
        /\ (pcW[w] = "pop" /\ pcW'[w] # "pop" /\ failed'["pop"] # failed["pop"]) =>
              /\ pcW'[w] = "sleep"
              /\ UNCHANGED <<wg, visited, jobs, news, fetches, item, issued>>
        /\ (pcW[w] = "sleep" /\ pcW'[w] # "sleep") =>
              /\ pcW'[w] = "pop"
              /\ UNCHANGED <<wg, visited, jobs, news, fetches, item, issued>>

\* C16: frontier pop failure. A worker whose BRPop returned an error changes
\* neither the counter nor the Visited Set nor the list (no decrement, no
\* mark, no push, no fetch), sleeps, and then is at its BRPop again.
C16_PopFailure == [][C16_Step]_vars

\* A worker sleeps after a failed pop while a counted task waits in the list.
C16_Witness ==
    /\ failed["pop"] = 1
    /\ wg > 0
    /\ jobs # <<>>
    /\ \E w \in Workers : pcW[w] = "sleep"

\* ------------------------------------------------------------------- C17
\* C17: RedisClient.CheckAndMark is safe under concurrent callers. For every
\* address, of all the calls made for it at most one returns false ("new").
C17_WrapperAtMostOnce ==
    \A u \in WrapperKeys :
        Cardinality({c \in Callers : rurl[c] = u /\ rret[c] = "false"}) <= 1

\* What the wrapper does guarantee: "already seen" is only said of a key
\* that is stored, and a call that found the key absent stores it.
WrapperSeenIsRight ==
    \A c \in Callers :
        /\ rret[c] = "true" => rurl[c] \in rkeys
        /\ rret[c] = "false" => rurl[c] \in rkeys

\* ------------------------------------------------------------------- C18
\* The counter is back at zero after the seed was counted.
Completed == SeedCounted /\ wg = 0

\* Nothing is queued and no worker is anywhere but at its BRPop (blocked in
\* it, or asleep before calling it again after an error), if it was started
\* at all.
AllIdle ==
    /\ jobs = <<>>
    /\ \A w \in Workers : pcW[w] \in {"none", "pop", "sleep"}

C18_Step ==
    Completed =>
        /\ Completed'
        /\ AllIdle'
        /\ UNCHANGED <<wg, jobs, visited, news, fetches, issued, item>>

\* C18: stability of completion. Once the counter is back at zero after the
\* seed was counted, the list is empty and every worker is at its pop, and
\* from then on no step fetches, pushes, inserts into the Visited Set or
\* changes the counter; the workers stay in their loop.
C18_Stability == [](Completed => AllIdle) /\ [][C18_Step]_vars

\* Both workers wait at BRPop after a crawl that fetched pages, the counter
\* at zero and the coordinator not yet woken.
C18_Witness ==
    /\ Completed
    /\ workerCount = 2
    /\ \A w \in Workers : pcW[w] = "pop"
    /\ fetches["A"] = 1
    /\ fetches["B"] = 1
    /\ ~done

\* ------------------------------------------------------------------- C19
\* The links a fetch of u yields in web w: none unless the answer is 200.
LinksOf(w, u) ==
    LET resp == Get(w, u)
    IN  IF resp.status = 200 THEN extractLinks(u, resp.doc) ELSE <<>>

Range(q) == {q[i] : i \in 1..Len(q)}

\* The addresses at most h hops from the seed.
RECURSIVE Within(_, _)
Within(w, h) ==
    IF h = 0 THEN {SeedUrl}
    ELSE LET near == CHOOSE s \in {Within(w, h - 1)} : TRUE
         IN  near \cup UNION {Range(LinksOf(w, u)) : u \in near}

\* The addresses a task with depth left can exist for when every address is
\* claimed by the task that reached it over the fewest hops: what a crawl
\* in breadth-first order visits.
Reach(w, depth) == IF depth <= 0 THEN {} ELSE Within(w, depth - 1)

\* Two completed crawls of the same seed, depth and web that differ only in
\* scheduling must agree; the crawl with one worker is the one to agree with.
AgreesWithOneWorker == visited = Reach(web, maxDepth)

\* C19 as stated: with no failure, the Visited Set of a completed crawl is the
\* same for every interleaving and every workerCount >= 1.
C19_SchedulingIndependent ==
    (Completed /\ NumFailed = 0) => AgreesWithOneWorker

\* C19: with no failure, the Visited Set of a completed crawl holds the seed
\* (for maxDepth > 0) and only addresses fewer than maxDepth hops from it,
\* and with one worker it is exactly those; with several workers an address
\* reached over paths of different length may be claimed by the task with
\* less depth left, and addresses behind it are then missing.
C19_VisitedWithinReach ==
    (Completed /\ NumFailed = 0) =>
        /\ maxDepth > 0 => SeedUrl \in visited
        /\ visited \subseteq Reach(web, maxDepth)
        /\ workerCount = 1 => AgreesWithOneWorker

\* C reached from A and through B: the task through B claimed it with depth
\* 1, so D was met with depth 0 only and is missing.
C19_Witness ==
    /\ Completed
    /\ NumFailed = 0
    /\ web = "diamond"
    /\ maxDepth = 3
    /\ workerCount = 2
    /\ visited = {"A", "B", "C"}
    /\ Reach(web, maxDepth) = {"A", "B", "C", "D"}

\* The same crawl, scheduled so that C is claimed with depth 2, visits D.
C19_OtherSchedule ==
    /\ Completed
    /\ NumFailed = 0
    /\ web = "diamond"
    /\ maxDepth = 3
    /\ workerCount = 2
    /\ visited = {"A", "B", "C", "D"}

\* ------------------------------------------------------------------- C20
\* The addresses extractLinks was called for, whether the GET succeeded or
\* not.
Fetched == {u \in Addrs : fetches[u] > 0}

\* The crawl is quiescent: the seed was counted and no task is queued or in
\* a worker's hands.
Settled == SeedCounted /\ jobs = <<>> /\ NumInFlight = 0

C20_State ==
    (visited0 = {} /\ failed["sadd"] = 0) =>
        /\ \A u \in Addrs :
              /\ fetches[u] <= 1
              /\ fetches[u] <= news[u]
              /\ fetches[u] > 0 => u \in visited
        /\ \A w \in Workers :
              pcW[w] = "extract" =>
                  /\ item[w].URL \in visited
                  /\ news[item[w].URL] = 1
                  /\ fetches[item[w].URL] = 0
        /\ Settled => visited = Fetched
        /\ (Settled /\ count # -1) => count = Cardinality(Fetched)

C20_Step ==
    /\ visited' # visited =>
          \E w \in Workers :
              /\ pcW[w] = "process"
              /\ item[w].Depth > 0
              /\ visited' = visited \cup {item[w].URL}
              /\ pcW'[w] = "extract"
    /\ fetches' # fetches =>
          \E w \in Workers :
              /\ pcW[w] = "extract"
              /\ pcW'[w] # "extract"
              /\ fetches' = [fetches EXCEPT ![item[w].URL] = @ + 1]

\* C20: visited set equals fetched set. Starting from an empty Visited Set
\* and with no store error, an address is fetched only by the worker that
\* has just inserted it, no address is fetched twice, and when the crawl is
\* quiescent the Visited Set, whose cardinality main reports, is exactly the
\* set of addresses a fetch was attempted for; insertions are made for tasks
\* with depth left only, so an address met in depth-0 tasks alone is not in.
C20_VisitedIsFetched == []C20_State /\ [][C20_Step]_vars

\* A quiescent crawl of depth 2: A and B were fetched and are the Visited
\* Set; D, linked from B, was met with depth 0 only and is not in it.
C20_Witness ==
    /\ jobs0 = <<>>
    /\ visited0 = {}
    /\ NumFailed = 0
    /\ maxDepth = 2
    /\ Settled
    /\ Fetched = {"A", "B"}
    /\ visited = {"A", "B"}

\* Without the premise: an address found in the set at the start stays in
\* it and is never fetched.
VisitedIsFetchedAnyStore == Settled => visited = Fetched
====
